---- MODULE Spec2Model ----
(***************************************************************************)
(* TaskManager: users, projects, tasks, the project_users association      *)
(* table, the request handlers of app/api and main.py, and the CSV savers  *)
(* of csv_parser.py, over one shared relational store.                     *)
(*                                                                         *)
(* Spec      every request runs alone (one action = one whole handler).    *)
(* SpecTasks the same handlers, with the task listing's pagination inputs  *)
(*           enumerated and the CSV task import.                           *)
(* SpecConc  add_user_to_project split at its commit, run by several       *)
(*           workers, each with a session of its own.                      *)
(* SpecBulk  the task listing over a project of more than 100 tasks.       *)
(* SpecPages the stores of SpecTasks, listed page by page.                 *)
(* SpecUsers the user handlers with names, emails and passwords varied.    *)
(* SpecImport  sample data, the CSV savers and the deletions.               *)
(* SpecConcFail  SpecConc with commits that the storage layer fails.        *)
(* SpecConcUsers  user create and PATCH split at their commit, run by       *)
(*           several workers.                                              *)
(***************************************************************************)
EXTENDS Integers, Sequences, FiniteSets, TLC

\* ------------------------------------------------------------------ bounds

MaxUserId == 4
MaxProjects == 2
MaxTasks == 4
NumWorkers == 2
\* Rows of the imported tasks file of SpecBulk: one more than the per_page cap.
BulkSize == 101

\* ------------------------------------------------------- program constants

\* Project.add_user: `if len(self.users) >= 3`
MaxProjectUsers == 3
\* tasks_by_project: `per_page = min(per_page, 100)`
MaxPerPage == 100
\* tasks_by_project: request.args.get('page', 1)
DefaultPage == 1
\* tasks_by_project: request.args.get('per_page', 10)
DefaultPerPage == 10

\* ------------------------------------------------------------------ values

\* A request field that is not sent (request.args.get -> None, a pydantic
\* Optional left at None, a JSON body without the key).
None == "<none>"

John == "john@example.com"
Jane == "jane@example.com"
Mike == "mike@example.com"
Dave == "dave@example.com"
\* An address whose domain is written in capitals: EmailStr accepts it and
\* str(payload_in.email) is the address with the domain in lower case.
DaveUpper == "dave@EXAMPLE.COM"
Ghost == "ghost@x.com"
BadEmail == "bad"

\* What pydantic's EmailStr accepts, among the texts the requests send.
WellFormedEmails == {John, Jane, Mike, Dave, DaveUpper, Ghost}

\* str(EmailStr): the validated address, its domain part lower-cased.
NormalizeEmail(e) == IF e = DaveUpper THEN Dave ELSE e

EmailStrOk(e) == e \in WellFormedEmails

\* Field(min_length=1, ...) on name and password.
StrFieldOk(s) == s # None /\ s # ""

VARIABLES
    users,      \* table users: id -> [name, email, password]
    projects,   \* table projects: id -> [title, order, updated_at], with
                \* updated_at the number of UPDATEs the row has had since its
                \* INSERT (each sets the column to a later utcnow())
    members,    \* table project_users: set of <<project_id, user_id>>
    tasks,      \* table tasks: id -> [title, order, project_id]
    resp,       \* the last request and the response it got
    workers     \* SpecConc: each worker's request in flight and its session

vars == <<users, projects, members, tasks, resp, workers>>
db == <<users, projects, members, tasks>>

\* ------------------------------------------------------------ the store

SetMax(S) == CHOOSE m \in S : \A x \in S : x <= m

\* Column(Integer, primary_key=True) on SQLite (main.py's default
\* DATABASE_URL): a new row gets the largest id in the table plus one.
NewId(ids) == IF ids = {} THEN 1 ELSE SetMax(ids) + 1

\* User.query.filter_by(email=...).first(): email is unique, zero or one row.
UsersByEmail(e) == {u \in DOMAIN users : users[u].email = e}

\* project.users, loaded through the association table.
ProjectUsers(p) == {u \in DOMAIN users : <<p, u>> \in members}

\* A user_count that counts the stored users, whatever their projects.
UserCount_all_users(p) == Cardinality(DOMAIN users)

\* Project.to_dict()['user_count']
UserCount(p) == Cardinality(ProjectUsers(p))

\* f with key k bound to v (k need not be in DOMAIN f): INSERT.
Insert(f, k, v) == [x \in DOMAIN f \cup {k} |-> IF x = k THEN v ELSE f[x]]

\* f without key k: DELETE.
Remove(f, k) == [x \in DOMAIN f \ {k} |-> f[x]]

\* ------------------------------------------------------------ responses

NoArgs == [pid |-> 0, uid |-> 0, email |-> None, page |-> None, per_page |-> None,
           name |-> None, password |-> None]

NoBody == [user_count |-> 0, page |-> 0, per_page |-> 0, total |-> 0,
           pages |-> 0, tasks |-> <<>>]

Response(op, args, status, message, commits, body) ==
    [op |-> op, args |-> args, status |-> status, message |-> message,
     commits |-> commits, body |-> body]

\* validation_error_payload(e): the message "Validation error" and, in
\* `details`, one entry per failing field of the payload, here its `loc`.
validation_error_payload(locs) == <<"Validation error">> \o locs

\* The ValueError text of Project.add_user:
\* f"Project {self.title} already has maximum 3 users"
MaxUsersMessage(title) == <<"Project ", title, " already has maximum 3 users">>

IdleWorker == [pc |-> "idle", op |-> None, pid |-> 0, email |-> None, user |-> 0,
               name |-> None, loaded |-> {}, status |-> 0, message |-> <<>>]

Init ==
    /\ users = <<>>
    /\ projects = <<>>
    /\ members = {}
    /\ tasks = <<>>
    /\ resp = Response("none", NoArgs, 0, <<>>, 0, NoBody)
    /\ workers = [w \in 1..NumWorkers |-> IdleWorker]

\* ------------------------------------------------- app/models.py: Project

\* add_user without its length check.
add_user_uncapped(loaded, user) == [raised |-> FALSE, users |-> loaded \cup {user}]

\* add_user comparing with > where the code has >=.
add_user_off_by_one(loaded, user) ==
    IF Cardinality(loaded) > MaxProjectUsers
    THEN [raised |-> TRUE, users |-> loaded]
    ELSE [raised |-> FALSE, users |-> loaded \cup {user}]

\* Project.add_user(user) on a project whose loaded users collection is
\* `loaded`: raises ValueError at 3 users, else appends the user if absent.
add_user(loaded, user) ==
    IF Cardinality(loaded) >= MaxProjectUsers
    THEN [raised |-> TRUE, users |-> loaded]
    ELSE [raised |-> FALSE, users |-> loaded \cup {user}]

\* ModelValidator.validate_project_user_count(project, user_to_add) on a
\* project whose users collection is `loaded`: returns True for a user who is
\* in it already, raises ValueError at 3 users, returns True otherwise.
validate_project_user_count(loaded, user_to_add) ==
    IF user_to_add # 0 /\ user_to_add \in loaded
    THEN [raised |-> FALSE]
    ELSE IF Cardinality(loaded) >= MaxProjectUsers
    THEN [raised |-> TRUE]
    ELSE [raised |-> FALSE]

\* A membership test that looks at the user's projects, not at this project's
\* users.
UserInProject_any_project(user, pid) == \E m \in members : m[2] = user

\* `user in project.users`
UserInProject(user, pid) == user \in ProjectUsers(pid)

\* ----------------------------------- app/api/projects.py: POST .../users/

\* add_user_to_project_begin with project.add_user called before the
\* `user in project.users` test.
add_user_to_project_begin_cap_first(pid, email) ==
    IF ~EmailStrOk(email)
    THEN [status |-> 422, message |-> validation_error_payload(<<"email">>),
          user |-> 0, loaded |-> {}]
    ELSE IF pid \notin DOMAIN projects
    THEN [status |-> 500, message |-> <<"404 Not Found">>, user |-> 0, loaded |-> {}]
    ELSE IF UsersByEmail(NormalizeEmail(email)) = {}
    THEN [status |-> 404, message |-> <<"User not found">>, user |-> 0, loaded |-> {}]
    ELSE LET user == CHOOSE u \in UsersByEmail(NormalizeEmail(email)) : TRUE
             loaded == ProjectUsers(pid)
         IN  IF add_user(loaded, user).raised
             THEN [status |-> 400, message |-> MaxUsersMessage(projects[pid].title),
                   user |-> user, loaded |-> loaded]
             ELSE IF UserInProject(user, pid)
             THEN [status |-> 200, message |-> <<"User already in project">>,
                   user |-> user, loaded |-> loaded]
             ELSE [status |-> 0, message |-> <<>>, user |-> user,
                   loaded |-> add_user(loaded, user).users]

\* add_user_to_project_begin with the project looked up before the payload
\* is validated.
add_user_to_project_begin_project_first(pid, email) ==
    IF pid \notin DOMAIN projects
    THEN [status |-> 500, message |-> <<"404 Not Found">>, user |-> 0, loaded |-> {}]
    ELSE IF ~EmailStrOk(email)
    THEN [status |-> 422, message |-> validation_error_payload(<<"email">>),
          user |-> 0, loaded |-> {}]
    ELSE IF UsersByEmail(NormalizeEmail(email)) = {}
    THEN [status |-> 404, message |-> <<"User not found">>, user |-> 0, loaded |-> {}]
    ELSE LET user == CHOOSE u \in UsersByEmail(NormalizeEmail(email)) : TRUE
             loaded == ProjectUsers(pid)
         IN  IF UserInProject(user, pid)
             THEN [status |-> 200, message |-> <<"User already in project">>,
                   user |-> user, loaded |-> loaded]
             ELSE IF add_user(loaded, user).raised
             THEN [status |-> 400, message |-> MaxUsersMessage(projects[pid].title),
                   user |-> user, loaded |-> loaded]
             ELSE [status |-> 0, message |-> <<>>, user |-> user,
                   loaded |-> add_user(loaded, user).users]

\* add_user_to_project up to (not including) db.session.commit(): the
\* response it returns early, or status 0 and the association row its session
\* holds pending.
add_user_to_project_begin(pid, email) ==
    IF ~EmailStrOk(email)
    THEN [status |-> 422, message |-> validation_error_payload(<<"email">>),
          user |-> 0, loaded |-> {}]
    ELSE IF pid \notin DOMAIN projects
    THEN \* get_or_404 aborts inside the try; `except Exception` catches the
         \* NotFound, rolls back and answers 500.
         [status |-> 500, message |-> <<"404 Not Found">>, user |-> 0, loaded |-> {}]
    ELSE IF UsersByEmail(NormalizeEmail(email)) = {}
    THEN [status |-> 404, message |-> <<"User not found">>, user |-> 0, loaded |-> {}]
    ELSE LET user == CHOOSE u \in UsersByEmail(NormalizeEmail(email)) : TRUE
             loaded == ProjectUsers(pid)
         IN  IF UserInProject(user, pid)
             THEN [status |-> 200, message |-> <<"User already in project">>,
                   user |-> user, loaded |-> loaded]
             ELSE IF add_user(loaded, user).raised
             THEN [status |-> 400, message |-> MaxUsersMessage(projects[pid].title),
                   user |-> user, loaded |-> loaded]
             ELSE [status |-> 0, message |-> <<>>, user |-> user,
                   loaded |-> add_user(loaded, user).users]

\* An association table with no primary key: the INSERT never fails.
CommitRaises_no_primary_key(pid, user) == FALSE

\* db.session.commit() of the pending row <<pid, user>>: the INSERT into
\* project_users fails on its primary key when the row is already there.
CommitRaises(pid, user) == <<pid, user>> \in members

AddArgs(pid, email) == [NoArgs EXCEPT !.pid = pid, !.email = email]

\* The whole handler, run alone. The commit flushes the append to
\* project.users as one INSERT into project_users; no column of the projects
\* row has changed, so no UPDATE of projects is issued and the onupdate of
\* updated_at does not run (projects is left as it is).
add_user_to_project(pid, email) ==
    LET b == add_user_to_project_begin(pid, email) IN
    /\ UNCHANGED <<users, projects, tasks, workers>>
    /\ IF b.status # 0
       THEN /\ members' = members
            /\ resp' = Response("add_user_to_project", AddArgs(pid, email), b.status,
                                b.message, 0,
                                IF b.status = 200
                                THEN [NoBody EXCEPT !.user_count = UserCount(pid)]
                                ELSE NoBody)
       ELSE IF CommitRaises(pid, b.user)
       THEN /\ members' = members
            /\ resp' = Response("add_user_to_project", AddArgs(pid, email), 500,
                                <<"IntegrityError">>, 1, NoBody)
       ELSE /\ members' = members \cup {<<pid, b.user>>}
            /\ resp' = Response("add_user_to_project", AddArgs(pid, email), 200,
                                <<"User added to project">>, 1,
                                [NoBody EXCEPT !.user_count = UserCount(pid) + 1])

\* ------------------------------ app/api/tasks.py: GET /project/<id>/

\* The query-string texts int() accepts, with their values; int() raises
\* ValueError on any other text.
IntText == ("-1" :> (0 - 1)) @@ ("0" :> 0) @@ ("1" :> 1) @@ ("2" :> 2) @@ ("3" :> 3)
           @@ ("4" :> 4) @@ ("5" :> 5) @@ ("6" :> 6)
           @@ ("100" :> 100) @@ ("101" :> 101) @@ ("500" :> 500)

IntRaises(text) == text \notin DOMAIN IntText

\* int(request.args.get(key, default)) when int() does not raise.
IntArg(text, default) == IF text = None THEN default ELSE IntText[text]

\* An ordering by id alone, the order_by on Task.order left out.
TaskBefore_by_id(a, b) == a < b

\* Task.order.asc(), Task.id.asc()
TaskBefore(a, b) ==
    \/ tasks[a].order < tasks[b].order
    \/ tasks[a].order = tasks[b].order /\ a < b

\* order_by(...) over a set of task ids: the rows, least first.
OrderBy(S) ==
    LET IsRow(t) == t \in S
    IN  SortSeq(SelectSeq([t \in 1..(NewId(S) - 1) |-> t], IsRow), TaskBefore)

\* Task.query.filter_by(project_id=project_id).order_by(...)
TaskQuery(pid) == OrderBy({t \in DOMAIN tasks : tasks[t].project_id = pid})

\* An offset counted in pages, not in rows: query.offset(page - 1).
OffsetLimit_offset_in_pages(rows, off, lim) ==
    LET o == off \div lim IN
    [i \in 1..(IF Len(rows) - o < lim
               THEN (IF Len(rows) - o < 0 THEN 0 ELSE Len(rows) - o)
               ELSE lim) |-> rows[o + i]]

\* query.offset(off).limit(lim).all()
OffsetLimit(rows, off, lim) ==
    [i \in 1..(IF Len(rows) - off < lim
               THEN (IF Len(rows) - off < 0 THEN 0 ELSE Len(rows) - off)
               ELSE lim) |-> rows[off + i]]

\* The page count by plain floor division, the `+ per_page - 1` left out.
PageCount_floor(total, per_page) ==
    IF per_page # 0 THEN total \div per_page ELSE 0

\* pages = (total + per_page - 1) // per_page if per_page else 0
PageCount(total, per_page) ==
    IF per_page # 0 THEN (total + per_page - 1) \div per_page ELSE 0

\* The requested per_page taken as it is, `min(per_page, 100)` left out.
ClampPerPage_none(per_page) == per_page

\* per_page = min(per_page, 100)
ClampPerPage(per_page) == IF per_page < MaxPerPage THEN per_page ELSE MaxPerPage

ListArgs(pid, email, page, per_page) ==
    [NoArgs EXCEPT !.pid = pid, !.email = email, !.page = page, !.per_page = per_page]

\* tasks_by_project from its `try: page = int(...)` on: the pagination
\* arguments, the query and the response.
tasks_by_project_page(pid, page, per_page) ==
    IF (page # None /\ IntRaises(page)) \/ (per_page # None /\ IntRaises(per_page))
    THEN [status |-> 400, message |-> <<"page and per_page must be integers">>,
          body |-> NoBody]
    ELSE IF IntArg(page, DefaultPage) < 1
    THEN [status |-> 400, message |-> <<"page must be >= 1">>, body |-> NoBody]
    ELSE IF IntArg(per_page, DefaultPerPage) < 1
    THEN [status |-> 400, message |-> <<"per_page must be >= 1">>, body |-> NoBody]
    ELSE LET pg == IntArg(page, DefaultPage)
             pp == ClampPerPage(IntArg(per_page, DefaultPerPage))
             query == TaskQuery(pid)
             total == Len(query)
         IN  [status |-> 200, message |-> <<"success">>,
              body |-> [user_count |-> 0, page |-> pg, per_page |-> pp,
                        total |-> total, pages |-> PageCount(total, pp),
                        tasks |-> OffsetLimit(query, (pg - 1) * pp, pp)]]

\* tasks_by_project_result with the project loaded and the membership tested
\* before the `if not user` test (no user is in project.users).
tasks_by_project_result_membership_first(pid, email, page, per_page) ==
    IF email = None \/ email = ""
    THEN [status |-> 400, message |-> <<"Missing required query param: email">>,
          body |-> NoBody]
    ELSE IF pid \notin DOMAIN projects
    THEN [status |-> 500, message |-> <<"404 Not Found">>, body |-> NoBody]
    ELSE IF \A u \in UsersByEmail(email) : ~UserInProject(u, pid)
    THEN [status |-> 403, message |-> <<"Forbidden">>, body |-> NoBody]
    ELSE IF UsersByEmail(email) = {}
    THEN [status |-> 404, message |-> <<"User not found">>, body |-> NoBody]
    ELSE tasks_by_project_page(pid, page, per_page)

\* The response of tasks_by_project: status, message and body.
tasks_by_project_result(pid, email, page, per_page) ==
    IF email = None \/ email = ""
    THEN [status |-> 400, message |-> <<"Missing required query param: email">>,
          body |-> NoBody]
    ELSE IF UsersByEmail(email) = {}
    THEN [status |-> 404, message |-> <<"User not found">>, body |-> NoBody]
    ELSE IF pid \notin DOMAIN projects
    THEN \* get_or_404 aborts inside the try; `except Exception` answers 500.
         [status |-> 500, message |-> <<"404 Not Found">>, body |-> NoBody]
    ELSE IF ~UserInProject(CHOOSE u \in UsersByEmail(email) : TRUE, pid)
    THEN [status |-> 403, message |-> <<"Forbidden">>, body |-> NoBody]
    ELSE tasks_by_project_page(pid, page, per_page)

\* A listing that writes: a requester who is not a member of the project is
\* answered 403 and stored as a member.
tasks_by_project_autojoin(pid, email, page, per_page) ==
    LET r == tasks_by_project_result(pid, email, page, per_page) IN
    /\ resp' = Response("tasks_by_project", ListArgs(pid, email, page, per_page),
                        r.status, r.message, 0, r.body)
    /\ members' = IF r.status = 403
                  THEN members \cup {<<pid, u>> : u \in UsersByEmail(email)}
                  ELSE members
    /\ UNCHANGED <<users, projects, tasks, workers>>

tasks_by_project(pid, email, page, per_page) ==
    LET r == tasks_by_project_result(pid, email, page, per_page) IN
    /\ resp' = Response("tasks_by_project", ListArgs(pid, email, page, per_page),
                        r.status, r.message, 0, r.body)
    /\ UNCHANGED <<users, projects, members, tasks, workers>>

\* ------------------------------------------ app/api/users.py: POST /users/

UserArgs(uid, name, email, password) ==
    [NoArgs EXCEPT !.uid = uid, !.name = name, !.email = email, !.password = password]

users_post(name, email, password) ==
    LET args == UserArgs(0, name, email, password) IN
    /\ UNCHANGED <<projects, members, tasks, workers>>
    /\ IF ~(StrFieldOk(name) /\ EmailStrOk(email) /\ StrFieldOk(password))
       THEN /\ users' = users
            /\ resp' = Response("users_post", args, 422, <<"Validation error">>, 0, NoBody)
       ELSE IF UsersByEmail(NormalizeEmail(email)) # {}
       THEN /\ users' = users
            /\ resp' = Response("users_post", args, 400, <<"Email already exists">>, 0, NoBody)
       ELSE /\ users' = Insert(users, NewId(DOMAIN users),
                               [name |-> name, email |-> NormalizeEmail(email),
                                password |-> password])
            /\ resp' = Response("users_post", args, 201,
                                <<"User created successfully">>, 1, NoBody)

\* ------------------------------ app/api/users.py: PATCH /users/<user_id>/

\* A PATCH that assigns all three fields of the payload, the `is not None`
\* tests left out: a field the body omits is overwritten with None.
user_by_id_patch_overwrite(uid, name, email, password) ==
    LET args == UserArgs(uid, name, email, password) IN
    /\ UNCHANGED <<projects, members, tasks, workers>>
    /\ IF uid \notin DOMAIN users
       THEN /\ users' = users
            /\ resp' = Response("user_by_id_patch", args, 404, <<"404 Not Found">>, 0, NoBody)
       ELSE IF \/ name = ""
               \/ email # None /\ ~EmailStrOk(email)
               \/ password = ""
       THEN /\ users' = users
            /\ resp' = Response("user_by_id_patch", args, 422, <<"Validation error">>, 0, NoBody)
       ELSE IF name = None /\ email = None /\ password = None
       THEN /\ users' = users
            /\ resp' = Response("user_by_id_patch", args, 400, <<"No data provided">>, 0, NoBody)
       ELSE IF /\ email # None
               /\ UsersByEmail(NormalizeEmail(email)) \ {uid} # {}
       THEN /\ users' = users
            /\ resp' = Response("user_by_id_patch", args, 400, <<"Email already exists">>, 0, NoBody)
       ELSE /\ users' = [users EXCEPT ![uid] =
                           [name |-> name,
                            email |-> IF email # None THEN NormalizeEmail(email) ELSE None,
                            password |-> password]]
            /\ resp' = Response("user_by_id_patch", args, 200,
                                <<"User updated successfully">>, 1, NoBody)

user_by_id_patch(uid, name, email, password) ==
    LET args == UserArgs(uid, name, email, password) IN
    /\ UNCHANGED <<projects, members, tasks, workers>>
    /\ IF uid \notin DOMAIN users
       THEN \* get_or_404 is called before the try: a real 404.
            /\ users' = users
            /\ resp' = Response("user_by_id_patch", args, 404, <<"404 Not Found">>, 0, NoBody)
       ELSE IF \/ name = ""
               \/ email # None /\ ~EmailStrOk(email)
               \/ password = ""
       THEN /\ users' = users
            /\ resp' = Response("user_by_id_patch", args, 422, <<"Validation error">>, 0, NoBody)
       ELSE IF name = None /\ email = None /\ password = None
       THEN /\ users' = users
            /\ resp' = Response("user_by_id_patch", args, 400, <<"No data provided">>, 0, NoBody)
       ELSE IF /\ email # None
               /\ UsersByEmail(NormalizeEmail(email)) \ {uid} # {}
       THEN \* user.name may have been assigned; the request's session is
            \* removed without a commit, so the assignment is dropped.
            /\ users' = users
            /\ resp' = Response("user_by_id_patch", args, 400, <<"Email already exists">>, 0, NoBody)
       ELSE /\ users' = [users EXCEPT ![uid] =
                           [name |-> IF name # None THEN name ELSE @.name,
                            email |-> IF email # None THEN NormalizeEmail(email) ELSE @.email,
                            password |-> IF password # None THEN password ELSE @.password]]
            /\ resp' = Response("user_by_id_patch", args, 200,
                                <<"User updated successfully">>, 1, NoBody)

\* ----------------------------- app/api/users.py: DELETE /users/<user_id>/

\* A DELETE that removes the users row alone and leaves the user's rows of
\* project_users in place.
user_by_id_delete_keeps_rows(uid, password) ==
    LET args == UserArgs(uid, None, None, password) IN
    /\ UNCHANGED <<projects, tasks, workers, members>>
    /\ IF uid \notin DOMAIN users
       THEN /\ UNCHANGED users
            /\ resp' = Response("user_by_id_delete", args, 404, <<"404 Not Found">>, 0, NoBody)
       ELSE IF ~StrFieldOk(password)
       THEN /\ UNCHANGED users
            /\ resp' = Response("user_by_id_delete", args, 422, <<"Validation error">>, 0, NoBody)
       ELSE IF users[uid].password # password
       THEN /\ UNCHANGED users
            /\ resp' = Response("user_by_id_delete", args, 401, <<"Incorrect password">>, 0, NoBody)
       ELSE /\ users' = Remove(users, uid)
            /\ resp' = Response("user_by_id_delete", args, 200,
                                <<"User deleted successfully">>, 1, NoBody)

\* DELETE with the `user.password != payload_in.password` test left out.
user_by_id_delete_unchecked(uid, password) ==
    LET args == UserArgs(uid, None, None, password) IN
    /\ UNCHANGED <<projects, tasks, workers>>
    /\ IF uid \notin DOMAIN users
       THEN /\ UNCHANGED <<users, members>>
            /\ resp' = Response("user_by_id_delete", args, 404, <<"404 Not Found">>, 0, NoBody)
       ELSE IF ~StrFieldOk(password)
       THEN /\ UNCHANGED <<users, members>>
            /\ resp' = Response("user_by_id_delete", args, 422, <<"Validation error">>, 0, NoBody)
       ELSE /\ users' = Remove(users, uid)
            /\ members' = {m \in members : m[2] # uid}
            /\ resp' = Response("user_by_id_delete", args, 200,
                                <<"User deleted successfully">>, 1, NoBody)

user_by_id_delete(uid, password) ==
    LET args == UserArgs(uid, None, None, password) IN
    /\ UNCHANGED <<projects, tasks, workers>>
    /\ IF uid \notin DOMAIN users
       THEN /\ UNCHANGED <<users, members>>
            /\ resp' = Response("user_by_id_delete", args, 404, <<"404 Not Found">>, 0, NoBody)
       ELSE IF ~StrFieldOk(password)
       THEN /\ UNCHANGED <<users, members>>
            /\ resp' = Response("user_by_id_delete", args, 422, <<"Validation error">>, 0, NoBody)
       ELSE IF users[uid].password # password
       THEN /\ UNCHANGED <<users, members>>
            /\ resp' = Response("user_by_id_delete", args, 401, <<"Incorrect password">>, 0, NoBody)
       ELSE \* db.session.delete(user) also deletes the user's rows of the
            \* secondary table of User.projects.
            /\ users' = Remove(users, uid)
            /\ members' = {m \in members : m[2] # uid}
            /\ resp' = Response("user_by_id_delete", args, 200,
                                <<"User deleted successfully">>, 1, NoBody)

\* --------------------------------------- main.py: /test/create-sample-data

SampleEmails == {John, Jane, Mike}

create_sample_data ==
    LET u1 == NewId(DOMAIN users)
        p == NewId(DOMAIN projects)
        t1 == NewId(DOMAIN tasks)
        withUsers == Insert(Insert(Insert(users,
            u1, [name |-> "John Doe", email |-> John, password |-> "password123"]),
            u1 + 1, [name |-> "Jane Smith", email |-> Jane, password |-> "password456"]),
            u1 + 2, [name |-> "Mike Johnson", email |-> Mike, password |-> "password789"])
        a1 == add_user({}, u1)
        a2 == add_user(a1.users, u1 + 1)
    IN
    /\ UNCHANGED workers
    /\ IF \E e \in SampleEmails : UsersByEmail(e) # {}
       THEN \* the first commit violates users.email's UNIQUE: rollback, 500
            /\ UNCHANGED <<users, projects, members, tasks>>
            /\ resp' = Response("create_sample_data", NoArgs, 500, <<"IntegrityError">>, 1, NoBody)
       ELSE IF a1.raised \/ a2.raised
       THEN \* the users are committed; add_user's ValueError ends the request
            /\ users' = withUsers
            /\ UNCHANGED <<projects, members, tasks>>
            /\ resp' = Response("create_sample_data", NoArgs, 500,
                                MaxUsersMessage("Sample Project"), 1, NoBody)
       ELSE /\ users' = withUsers
            /\ projects' = Insert(projects, p, [title |-> "Sample Project", order |-> 1,
                                             updated_at |-> 0])
            /\ members' = members \cup {<<p, u>> : u \in a2.users}
            /\ tasks' = Insert(Insert(tasks,
                   t1, [title |-> "Setup Database", order |-> 1, project_id |-> p]),
                   t1 + 1, [title |-> "Create API", order |-> 2, project_id |-> p])
            /\ resp' = Response("create_sample_data", NoArgs, 200,
                                <<"Sample data created successfully">>, 3, NoBody)

\* ------------------------------------------- csv_parser.py: DatabaseSaver

\* save_projects' loop: a project whose title is stored already is skipped.
RECURSIVE SaveProjectRows(_, _)
SaveProjectRows(batch, projs) ==
    IF batch = <<>> THEN projs
    ELSE IF \E q \in DOMAIN projs : projs[q].title = Head(batch).title
    THEN SaveProjectRows(Tail(batch), projs)
    ELSE SaveProjectRows(Tail(batch),
             Insert(projs, NewId(DOMAIN projs),
                    [title |-> Head(batch).title, order |-> Head(batch).order,
                     updated_at |-> 0]))

save_projects(batch) ==
    /\ projects' = SaveProjectRows(batch, projects)
    /\ resp' = Response("save_projects", NoArgs, 0, <<>>, 1,
                        [NoBody EXCEPT !.total = Cardinality(DOMAIN projects')
                                                 - Cardinality(DOMAIN projects)])
    /\ UNCHANGED <<users, members, tasks, workers>>

\* save_tasks' loop: a task whose title is stored already is skipped; every
\* other one goes to DBProject.query.first(), here `first`. The rows the loop
\* adds are the batch's rows whose title is neither stored nor the title of
\* an earlier row of the batch; they get the next ids in batch order.
SaveTaskRows(batch, first, rows) ==
    LET IsAdded(i) == /\ \A t \in DOMAIN rows : rows[t].title # batch[i].title
                      /\ \A j \in 1..(i - 1) : batch[j].title # batch[i].title
        added == SelectSeq([i \in 1..Len(batch) |-> i], IsAdded)
        last  == NewId(DOMAIN rows) - 1
    IN  [t \in DOMAIN rows \cup (last + 1)..(last + Len(added)) |->
            IF t \in DOMAIN rows THEN rows[t]
            ELSE [title |-> batch[added[t - last]].title,
                  order |-> batch[added[t - last]].order,
                  project_id |-> first]]

\* save_tasks with no `if not project: return 0`: with no project stored the
\* tasks are given project_id 1.
save_tasks_without_project_test(batch, first) ==
    /\ tasks' = SaveTaskRows(batch, IF first = 0 THEN 1 ELSE first, tasks)
    /\ resp' = Response("save_tasks", NoArgs, 0, <<>>, 1,
                        [NoBody EXCEPT !.total = Cardinality(DOMAIN tasks')
                                                 - Cardinality(DOMAIN tasks)])
    /\ UNCHANGED <<users, projects, members, workers>>

\* `first` is the row DBProject.query.first() returns: the query has no
\* ORDER BY, so any stored project; 0 when there is none.
save_tasks(batch, first) ==
    /\ IF first = 0
       THEN \* "No projects found in database, skipping tasks...": return 0
            tasks' = tasks
       ELSE tasks' = SaveTaskRows(batch, first, tasks)
    /\ resp' = Response("save_tasks", NoArgs, 0, <<>>,
                        IF first = 0 /\ \E i \in 1..Len(batch) :
                               \A t \in DOMAIN tasks : tasks[t].title # batch[i].title
                        THEN 0 ELSE 1,
                        [NoBody EXCEPT !.total = Cardinality(DOMAIN tasks')
                                                 - Cardinality(DOMAIN tasks)])
    /\ UNCHANGED <<users, projects, members, workers>>

\* ------------------------------------------------- deletion of a project

\* The explicit delete request of a project: db.session.delete(project) under
\* the mapping of models.py, where Project.tasks has cascade="all,
\* delete-orphan" (its tasks are deleted with it) and Project.users is a
\* secondary relationship (its project_users rows are deleted with it).
project_delete(pid) ==
    /\ UNCHANGED <<users, workers>>
    /\ IF pid \notin DOMAIN projects
       THEN /\ UNCHANGED <<projects, members, tasks>>
            /\ resp' = Response("project_delete", [NoArgs EXCEPT !.pid = pid], 404,
                                <<"404 Not Found">>, 0, NoBody)
       ELSE /\ projects' = Remove(projects, pid)
            /\ tasks' = [t \in {x \in DOMAIN tasks : tasks[x].project_id # pid}
                           |-> tasks[t]]
            /\ members' = {m \in members : m[1] # pid}
            /\ resp' = Response("project_delete", [NoArgs EXCEPT !.pid = pid], 200,
                                <<"Project deleted successfully">>, 1, NoBody)

\* ------------------------------------- add_user_to_project, several workers

\* A worker runs add_user_to_project up to its commit: every read of the
\* handler (the project, the user, project.users) is made here, in the
\* worker's own session.
WorkerBegin(w, pid, email) ==
    LET b == add_user_to_project_begin(pid, email) IN
    /\ workers[w].pc = "idle"
    /\ workers' = [workers EXCEPT ![w] =
                     [pc |-> IF b.status = 0 THEN "commit" ELSE "done",
                      op |-> "add_user_to_project", pid |-> pid, email |-> email, user |-> b.user,
                      name |-> None,
                      loaded |-> b.loaded, status |-> b.status, message |-> b.message]]
    /\ UNCHANGED <<users, projects, members, tasks, resp>>

\* The worker's db.session.commit(), and the response after it.
WorkerCommit(w) ==
    /\ workers[w].pc = "commit"
    /\ IF CommitRaises(workers[w].pid, workers[w].user)
       THEN /\ members' = members
            /\ workers' = [workers EXCEPT ![w].pc = "done", ![w].status = 500,
                                          ![w].message = <<"IntegrityError">>]
       ELSE /\ members' = members \cup {<<workers[w].pid, workers[w].user>>}
            /\ workers' = [workers EXCEPT ![w].pc = "done", ![w].status = 200,
                                          ![w].message = <<"User added to project">>]
    /\ UNCHANGED <<users, projects, tasks, resp>>

\* A failed commit that leaves its INSERT applied: the row is stored although
\* the request is answered 500.
WorkerCommitFails_row_kept(w) ==
    /\ workers[w].pc = "commit"
    /\ members' = members \cup {<<workers[w].pid, workers[w].user>>}
    /\ workers' = [workers EXCEPT ![w].pc = "done", ![w].status = 500,
                                  ![w].message = <<"OperationalError">>]
    /\ UNCHANGED <<users, projects, tasks, resp>>

\* The worker's db.session.commit() raises for a reason of the storage layer
\* (the database is locked, the connection is lost): `except Exception`
\* calls db.session.rollback(), which drops the pending row, and answers 500
\* with the text of the exception; the handler has no loop, the request ends.
WorkerCommitFails(w) ==
    /\ workers[w].pc = "commit"
    /\ members' = members
    /\ workers' = [workers EXCEPT ![w].pc = "done", ![w].status = 500,
                                  ![w].message = <<"OperationalError">>]
    /\ UNCHANGED <<users, projects, tasks, resp>>

\* The response is sent and the request's session is removed (what it holds
\* uncommitted is dropped); the worker takes the next request.
WorkerReturn(w) ==
    /\ workers[w].pc = "done"
    /\ workers' = [workers EXCEPT ![w] = IdleWorker]
    /\ UNCHANGED <<users, projects, members, tasks, resp>>

\* ---------------------------------- user create and PATCH, several workers

\* A column with unique=True and no such constraint in the database.
UniqueEmailRaises_no_constraint(email, uid) == FALSE

\* db.session.commit() of an INSERT or UPDATE that gives the users row `uid`
\* (0: a new row) the email `email`: users.email is UNIQUE, the statement
\* fails when another row has that email.
UniqueEmailRaises(email, uid) ==
    \E u \in DOMAIN users \ {uid} : users[u].email = email

\* POST /users/ up to (not including) db.session.add and commit.
UsersPostBegin(w, name, email, password) ==
    LET rejected ==
            IF ~(StrFieldOk(name) /\ EmailStrOk(email) /\ StrFieldOk(password))
            THEN [status |-> 422, message |-> <<"Validation error">>]
            ELSE IF UsersByEmail(NormalizeEmail(email)) # {}
            THEN [status |-> 400, message |-> <<"Email already exists">>]
            ELSE [status |-> 0, message |-> <<>>]
    IN
    /\ workers[w].pc = "idle"
    /\ workers' = [workers EXCEPT ![w] =
                     [pc |-> IF rejected.status = 0 THEN "commit_user" ELSE "done",
                      op |-> "users_post", pid |-> 0, email |-> email, user |-> 0,
                      name |-> name,
                      loaded |-> {}, status |-> rejected.status,
                      message |-> rejected.message]]
    /\ UNCHANGED <<users, projects, members, tasks, resp>>

\* PATCH /users/<uid>/ with a name, an email or both, up to (not including)
\* its commit. `name` of the worker is the assignment user.name = ... that its
\* session holds: made before the duplicate-email test, it is still in the
\* session, uncommitted, when that test answers 400.
UserPatchBegin(w, uid, name, email) ==
    LET rejected ==
            IF uid \notin DOMAIN users
            THEN [status |-> 404, message |-> <<"404 Not Found">>]
            ELSE IF name = "" \/ (email # None /\ ~EmailStrOk(email))
            THEN [status |-> 422, message |-> <<"Validation error">>]
            ELSE IF name = None /\ email = None
            THEN [status |-> 400, message |-> <<"No data provided">>]
            ELSE IF email # None /\ UsersByEmail(NormalizeEmail(email)) \ {uid} # {}
            THEN [status |-> 400, message |-> <<"Email already exists">>]
            ELSE [status |-> 0, message |-> <<>>]
    IN
    /\ workers[w].pc = "idle"
    /\ workers' = [workers EXCEPT ![w] =
                     [pc |-> IF rejected.status = 0 THEN "commit_user" ELSE "done",
                      op |-> "user_by_id_patch", pid |-> 0, email |-> email,
                      user |-> uid,
                      name |-> IF rejected.status \in {404, 422} THEN None ELSE name,
                      loaded |-> {}, status |-> rejected.status,
                      message |-> rejected.message]]
    /\ UNCHANGED <<users, projects, members, tasks, resp>>

\* UserCommit with one session shared by every request and never removed:
\* the commit also writes the name assignments that requests answered 400
\* have left in it.
UserCommit_shared_session(w) ==
    LET email == NormalizeEmail(workers[w].email)
        uid == workers[w].user
        stale(u) == {workers[v].name : v \in {x \in DOMAIN workers :
                         /\ x # w /\ workers[x].pc = "done"
                         /\ workers[x].op = "user_by_id_patch"
                         /\ workers[x].status = 400
                         /\ workers[x].user = u /\ workers[x].name # None}}
        flush(rows) == [u \in DOMAIN rows |->
                          IF stale(u) # {}
                          THEN [rows[u] EXCEPT !.name = CHOOSE n \in stale(u) : TRUE]
                          ELSE rows[u]]
    IN
    /\ workers[w].pc = "commit_user"
    /\ IF email # None /\ UniqueEmailRaises(email, uid)
       THEN /\ users' = users
            /\ workers' = [workers EXCEPT ![w].pc = "done", ![w].status = 500,
                                          ![w].message = <<"IntegrityError">>]
       ELSE IF workers[w].op = "users_post"
       THEN /\ users' = flush(Insert(users, NewId(DOMAIN users),
                               [name |-> workers[w].name, email |-> email,
                                password |-> "pw"]))
            /\ workers' = [workers EXCEPT ![w].pc = "done", ![w].status = 201,
                                          ![w].message = <<"User created successfully">>]
       ELSE /\ users' = flush([users EXCEPT ![uid] =
                           [@ EXCEPT !.name = IF workers[w].name # None
                                               THEN workers[w].name ELSE @,
                                     !.email = IF email # None THEN email ELSE @]])
            /\ workers' = [workers EXCEPT ![w].pc = "done", ![w].status = 200,
                                          ![w].message = <<"User updated successfully">>]
    /\ UNCHANGED <<projects, members, tasks, resp>>

\* The worker's db.session.commit() of its pending users row, and the
\* response after it; an IntegrityError is caught by `except Exception`,
\* rolled back and answered 500. The session is the worker's own (scoped to
\* the request), so the commit writes this request's assignments only.
UserCommit(w) ==
    LET email == NormalizeEmail(workers[w].email)
        uid == workers[w].user
    IN
    /\ workers[w].pc = "commit_user"
    /\ IF email # None /\ UniqueEmailRaises(email, uid)
       THEN /\ users' = users
            /\ workers' = [workers EXCEPT ![w].pc = "done", ![w].status = 500,
                                          ![w].message = <<"IntegrityError">>]
       ELSE IF workers[w].op = "users_post"
       THEN /\ users' = Insert(users, NewId(DOMAIN users),
                               [name |-> workers[w].name, email |-> email,
                                password |-> "pw"])
            /\ workers' = [workers EXCEPT ![w].pc = "done", ![w].status = 201,
                                          ![w].message = <<"User created successfully">>]
       ELSE /\ users' = [users EXCEPT ![uid] =
                           [@ EXCEPT !.name = IF workers[w].name # None
                                               THEN workers[w].name ELSE @,
                                     !.email = IF email # None THEN email ELSE @]]
            /\ workers' = [workers EXCEPT ![w].pc = "done", ![w].status = 200,
                                          ![w].message = <<"User updated successfully">>]
    /\ UNCHANGED <<projects, members, tasks, resp>>

\* ------------------------------------------------------------ the requests

\* Ids the requests name: an id with no row is one of them in every state
\* where fewer rows are stored.
UserIds == 1..MaxUserId
ProjectIds == 1..MaxProjects

CreateNames == {"Dave"}
CreateEmails == {Dave, DaveUpper, BadEmail}
CreatePasswords == {"pw"}
PatchNames == {None}
PatchEmails == {None, Dave}
PatchPasswords == {None}
DeletePasswords == {"password123", "pw"}
AddEmails == {John, Mike, Dave, DaveUpper, Ghost, BadEmail}
ListEmails == {John, Mike, Ghost, ""}
\* (page, per_page) as the query string carries them.
PageArgs == {<<None, None>>, <<"abc", None>>, <<None, "x">>, <<"0", None>>,
             <<None, "0">>, <<"-1", "1">>, <<"1", "1">>, <<"2", "1">>, <<"3", "1">>,
             <<"1", "2">>, <<"2", "2">>, <<"3", "2">>, <<"1", "3">>, <<"1", "500">>,
             <<"2", "500">>, <<"1", "101">>, <<"1", "100">>}
CsvProjects == {<<[title |-> "P1", order |-> 2]>>}
CsvOrders == {0, 1}
CsvTasks == {<<[title |-> "T1", order |-> o]>> : o \in CsvOrders}
            \cup {<<[title |-> "T1", order |-> o], [title |-> "T2", order |-> 0]>> :
                     o \in CsvOrders}

\* A tasks file of BulkSize rows, titles "1", "2", ..., orders 0 and 1 by turns.
BulkTasks == [i \in 1..BulkSize |-> [title |-> ToString(i), order |-> i % 2]]
BulkEmails == {John, Mike, Ghost}
BulkPageArgs == {<<None, None>>, <<"1", "0">>, <<"0", "500">>, <<"1", "100">>, <<"1", "101">>,
                 <<"1", "500">>, <<"2", "500">>}

\* The requests of SpecUsers: (name, email, password) of a PATCH body, None
\* for a field the body leaves out.
PatchBodies == {<<None, None, None>>, <<"Renamed", None, None>>, <<None, Dave, None>>,
                <<None, DaveUpper, None>>, <<None, John, None>>,
                <<None, None, "changed">>, <<"Renamed", Dave, "changed">>,
                <<"Renamed", John, None>>, <<"", None, None>>, <<None, BadEmail, None>>}
PatchIds == {1, 2, MaxUserId}
DeleteBodies == {"password123", "changed", "pw", None}

CanCreateUser == NewId(DOMAIN users) <= MaxUserId

CanCreateSampleData ==
    /\ NewId(DOMAIN users) + 2 <= MaxUserId
    /\ Cardinality(DOMAIN projects) < MaxProjects
    /\ Cardinality(DOMAIN tasks) + 2 <= MaxTasks

FirstProjects == IF DOMAIN projects = {} THEN {0} ELSE DOMAIN projects

Next ==
    \/ \E n \in CreateNames, e \in CreateEmails, p \in CreatePasswords :
          CanCreateUser /\ users_post(n, e, p)
    \/ \E u \in UserIds, n \in PatchNames, e \in PatchEmails, p \in PatchPasswords :
          user_by_id_patch(u, n, e, p)
    \/ \E u \in UserIds, p \in DeletePasswords : user_by_id_delete(u, p)
    \/ CanCreateSampleData /\ create_sample_data
    \/ \E b \in CsvProjects :
          Cardinality(DOMAIN projects) + Len(b) <= MaxProjects /\ save_projects(b)
    \/ \E p \in ProjectIds, e \in AddEmails : add_user_to_project(p, e)
    \/ \E p \in ProjectIds, e \in ListEmails : tasks_by_project(p, e, None, None)

Spec == Init /\ [][Next]_vars

NextTasks ==
    \/ CanCreateSampleData /\ create_sample_data
    \/ \E b \in CsvProjects :
          Cardinality(DOMAIN projects) + Len(b) <= MaxProjects /\ save_projects(b)
    \/ \E b \in CsvTasks, f \in FirstProjects :
          Cardinality(DOMAIN tasks) + Len(b) <= MaxTasks /\ save_tasks(b, f)
    \/ \E p \in ProjectIds, e \in {Mike} : add_user_to_project(p, e)
    \/ \E p \in ProjectIds, e \in {John, Mike, Ghost, None}, a \in PageArgs :
          tasks_by_project(p, e, a[1], a[2])

SpecTasks == Init /\ [][NextTasks]_vars

NextConc ==
    \/ \E n \in CreateNames, e \in {Dave}, p \in CreatePasswords :
          CanCreateUser /\ users_post(n, e, p)
    \/ CanCreateSampleData /\ create_sample_data
    \/ \E w \in 1..NumWorkers, p \in ProjectIds, e \in {John, Mike, Dave, Ghost} :
          WorkerBegin(w, p, e)
    \/ \E w \in 1..NumWorkers : WorkerCommit(w)
    \/ \E w \in 1..NumWorkers : WorkerReturn(w)

SpecConc == Init /\ [][NextConc]_vars

\* ================================================================== claims

PagesArgs == {<<None, None>>, <<"1", "1">>, <<"2", "1">>, <<"3", "1">>, <<"2", "2">>,
              <<"3", "2">>}

NextPages ==
    \/ CanCreateSampleData /\ create_sample_data
    \/ \E b \in CsvProjects :
          Cardinality(DOMAIN projects) + Len(b) <= MaxProjects /\ save_projects(b)
    \/ \E b \in CsvTasks, f \in FirstProjects :
          Cardinality(DOMAIN tasks) + Len(b) <= MaxTasks /\ save_tasks(b, f)
    \/ \E p \in ProjectIds, e \in {Mike} : add_user_to_project(p, e)
    \/ \E p \in ProjectIds, e \in {John, Mike}, a \in PagesArgs :
          tasks_by_project(p, e, a[1], a[2])

SpecPages == Init /\ [][NextPages]_vars

NextBulk ==
    \/ CanCreateSampleData /\ create_sample_data
    \/ \E f \in FirstProjects : save_tasks(BulkTasks, f)
    \/ \E p \in ProjectIds, e \in BulkEmails, a \in BulkPageArgs :
          tasks_by_project(p, e, a[1], a[2])

SpecBulk == Init /\ [][NextBulk]_vars

NextUsers ==
    \/ \E n \in CreateNames, e \in {Dave, John}, p \in CreatePasswords :
          CanCreateUser /\ users_post(n, e, p)
    \/ CanCreateSampleData /\ create_sample_data
    \/ \E u \in PatchIds, b \in PatchBodies : user_by_id_patch(u, b[1], b[2], b[3])
    \/ \E u \in UserIds, p \in DeleteBodies : user_by_id_delete(u, p)

SpecUsers == Init /\ [][NextUsers]_vars

\* Room for the rows the pending creates will insert.
CanBeginCreate ==
    NewId(DOMAIN users)
      + Cardinality({w \in DOMAIN workers : /\ workers[w].pc = "commit_user"
                                            /\ workers[w].op = "users_post"})
      <= MaxUserId

ConcPatchIds == {1, MaxUserId}
\* (name, email) of a PATCH body, None for a field the body leaves out.
ConcPatchBodies == {<<None, Dave>>, <<"Renamed", None>>, <<"Renamed", John>>}

NextConcUsers ==
    \/ CanCreateSampleData /\ create_sample_data
    \/ \E w \in 1..NumWorkers, e \in {Dave, DaveUpper, BadEmail} :
          CanBeginCreate /\ UsersPostBegin(w, "Dave", e, "pw")
    \/ \E w \in 1..NumWorkers, u \in ConcPatchIds, b \in ConcPatchBodies :
          UserPatchBegin(w, u, b[1], b[2])
    \/ \E w \in 1..NumWorkers : UserCommit(w)
    \/ \E w \in 1..NumWorkers : WorkerReturn(w)

SpecConcUsers == Init /\ [][NextConcUsers]_vars

NextImport ==
    \/ CanCreateSampleData /\ create_sample_data
    \/ \E b \in CsvProjects :
          Cardinality(DOMAIN projects) + Len(b) <= MaxProjects /\ save_projects(b)
    \/ \E b \in CsvTasks, f \in FirstProjects :
          Cardinality(DOMAIN tasks) + Len(b) <= MaxTasks /\ save_tasks(b, f)
    \/ \E u \in UserIds, p \in {"password123", "password789"} : user_by_id_delete(u, p)
    \/ \E p \in ProjectIds : project_delete(p)

SpecImport == Init /\ [][NextImport]_vars

NextConcFail ==
    \/ NextConc
    \/ \E w \in 1..NumWorkers : WorkerCommitFails(w)

SpecConcFail == Init /\ [][NextConcFail]_vars

Range(s) == {s[i] : i \in 1..Len(s)}

\* The rows of project_users that belong to project p.
Rows(p) == {m \in members : m[1] = p}

IsAdd(r) == r.op = "add_user_to_project"
IsList(r) == r.op = "tasks_by_project"

\* C1: with every request run alone (add_user_to_project, user create, update
\* and delete, sample-data creation, project import), every project has at
\* most 3 member rows in every reachable state.
C1_MembershipCap == \A p \in DOMAIN projects : Cardinality(Rows(p)) <= 3

\* A project filled to 3 members by a successful add.
C1_Witness ==
    /\ IsAdd(resp) /\ resp.status = 200 /\ resp.commits = 1
    /\ Cardinality(Rows(resp.args.pid)) = 3

\* C2: with add_user_to_project requests interleaved (each reads the member
\* list, checks the count, appends, then commits), no project ever has more
\* than 3 member rows.
C2_CapUnderInterleaving ==
    /\ \A p \in DOMAIN projects : Cardinality(Rows(p)) <= 3
    /\ \A v \in DOMAIN workers, w \in DOMAIN workers :
          ~(/\ v # w
            /\ workers[v].pc = "done" /\ workers[w].pc = "done"
            /\ workers[v].status = 200 /\ workers[w].status = 200
            /\ workers[v].pid = workers[w].pid
            /\ workers[v].user # workers[w].user
            /\ Cardinality(workers[v].loaded \ {workers[v].user}) = 2
            /\ Cardinality(workers[w].loaded \ {workers[w].user}) = 2
            /\ workers[v].user \notin workers[w].loaded
            /\ workers[w].user \notin workers[v].loaded)

\* C3: add_user_to_project on a project with 3 members, for a stored user who
\* is not one of them, answers 400 with a message containing "maximum 3
\* users", commits nothing and leaves the member rows as they were.
C3_FullProjectRejects ==
    [][(/\ IsAdd(resp')
        /\ resp'.args.pid \in DOMAIN projects
        /\ Cardinality(Rows(resp'.args.pid)) = 3
        /\ \E u \in DOMAIN users :
              /\ users[u].email = resp'.args.email
              /\ <<resp'.args.pid, u>> \notin members)
       => (/\ resp'.status = 400
           /\ " already has maximum 3 users" \in Range(resp'.message)
           /\ resp'.commits = 0
           /\ members' = members)]_vars

\* A fourth user was refused on a project that holds 3.
C3_Witness ==
    /\ IsAdd(resp) /\ resp.status = 400
    /\ Cardinality(Rows(resp.args.pid)) = 3
    /\ \E u \in DOMAIN users :
          users[u].email = resp.args.email /\ <<resp.args.pid, u>> \notin members

\* C4: add_user_to_project for a user who is already a member (of a project
\* with 1 to 3 members, a full one included) answers 200 "User already in
\* project", commits nothing and leaves the member rows unchanged; and a
\* second call with the arguments of a call that answered 200 changes nothing.
C4_AlreadyMemberIdempotent ==
    [][/\ (/\ IsAdd(resp')
           /\ \E u \in DOMAIN users :
                 /\ users[u].email = resp'.args.email
                 /\ <<resp'.args.pid, u>> \in members
                 /\ resp'.args.pid \in DOMAIN projects)
          => (/\ resp'.status = 200
              /\ resp'.message = <<"User already in project">>
              /\ resp'.commits = 0
              /\ members' = members)
       /\ (/\ IsAdd(resp) /\ resp.status = 200
           /\ IsAdd(resp') /\ resp'.args = resp.args)
          => (resp'.status = 200 /\ resp'.commits = 0 /\ members' = members)]_vars

\* "Already in project" was answered on a project that holds 3 members.
C4_Witness ==
    /\ IsAdd(resp) /\ resp.message = <<"User already in project">>
    /\ Cardinality(Rows(resp.args.pid)) = 3

\* C5: add_user_to_project with a well-formed email and a project id that has
\* no row answers 404.
C5_UnknownProjectIs404 ==
    (/\ IsAdd(resp)
     /\ resp.args.email \in WellFormedEmails
     /\ resp.args.pid \notin DOMAIN projects)
    => resp.status = 404

\* C6: tasks_by_project with the email of a stored user and a project id that
\* has no row answers 404.
C6_UnknownProjectIs404 ==
    (/\ IsList(resp)
     /\ \E u \in DOMAIN users : users[u].email = resp.args.email
     /\ resp.args.pid \notin DOMAIN projects)
    => resp.status = 404

\* The integer a query-string text stands for (absent: the default).
TextValue(text, default) ==
    IF text = None THEN default
    ELSE CASE text = "-1" -> 0 - 1 [] text = "0" -> 0 [] text = "1" -> 1
           [] text = "2" -> 2 [] text = "3" -> 3 [] text = "100" -> 100
           [] text = "101" -> 101 [] text = "500" -> 500

IsIntegerText(text) ==
    text \in {"-1", "0", "1", "2", "3", "100", "101", "500"}

\* page and per_page are absent or integers >= 1.
ValidPagination(args) ==
    /\ args.page = None \/ (IsIntegerText(args.page) /\ TextValue(args.page, 1) >= 1)
    /\ args.per_page = None
       \/ (IsIntegerText(args.per_page) /\ TextValue(args.per_page, 10) >= 1)

\* C7: for a stored project, a stored user and valid pagination arguments,
\* tasks_by_project answers 200 exactly when the user is a member of the
\* project in the state the call is made in, and 403 with no task otherwise.
C7_AuthorizationIsCurrentMembership ==
    (/\ IsList(resp)
     /\ resp.args.pid \in DOMAIN projects
     /\ ValidPagination(resp.args))
    => \A u \in DOMAIN users :
          users[u].email = resp.args.email
          => IF <<resp.args.pid, u>> \in members
             THEN resp.status = 200
             ELSE resp.status = 403 /\ resp.body.tasks = <<>>

\* Mike, whom only add_user_to_project makes a member, is answered 200.
C7_Witness ==
    /\ IsList(resp) /\ resp.args.email = Mike /\ resp.status = 200
    /\ \E p \in DOMAIN projects, u \in DOMAIN users :
          p # resp.args.pid /\ users[u].email = John /\ <<p, u>> \in members

\* C8: tasks_by_project with an email that no stored user has answers 404,
\* never 403, whatever the project's members are.
C8_UnknownEmailIs404 ==
    (/\ IsList(resp)
     /\ resp.args.email \notin {None, ""}
     /\ \A u \in DOMAIN users : users[u].email # resp.args.email)
    => resp.status = 404

\* An unknown email was answered 404 on a stored project that has members.
C8_Witness ==
    /\ IsList(resp) /\ resp.args.email = Ghost /\ resp.status = 404
    /\ resp.args.pid \in DOMAIN projects
    /\ Rows(resp.args.pid) # {}

\* C9: tasks_by_project answers 422 to a request with no email, with a page
\* or per_page that is not an integer, or with page < 1 or per_page < 1.
C9_ValidationIs422 ==
    (/\ IsList(resp)
     /\ \/ resp.args.email = None
        \/ ~ValidPagination(resp.args))
    => resp.status = 422

\* (order, id) ascending.
KeyLess(a, b) ==
    \/ tasks[a].order < tasks[b].order
    \/ tasks[a].order = tasks[b].order /\ a < b

\* C10: a 200 response of tasks_by_project holds exactly the tasks at
\* positions [(page-1)*per_page, (page-1)*per_page + per_page) of the
\* project's tasks in (order, id) ascending order (per_page capped at 100):
\* the i-th returned task is a task of the project with exactly
\* (page-1)*per_page + i - 1 tasks of the project before it, and the page is
\* as long as the window allows.
C10_PageIsWindowOfSortedTasks ==
    (IsList(resp) /\ resp.status = 200)
    => LET mine == {t \in DOMAIN tasks : tasks[t].project_id = resp.args.pid}
           page == TextValue(resp.args.page, 1)
           asked == TextValue(resp.args.per_page, 10)
           per_page == IF asked > 100 THEN 100 ELSE asked
           off == (page - 1) * per_page
           rows == resp.body.tasks
           left == Cardinality(mine) - off
       IN  /\ \A i \in 1..Len(rows) :
                /\ rows[i] \in mine
                /\ Cardinality({t \in mine : KeyLess(t, rows[i])}) = off + i - 1
           /\ Len(rows) = IF left <= 0 THEN 0
                          ELSE IF left < per_page THEN left ELSE per_page

\* A page of two tasks that were created in the opposite order, while another
\* project has tasks of its own.
C10_Witness ==
    /\ IsList(resp) /\ resp.status = 200
    /\ Len(resp.body.tasks) = 2
    /\ resp.body.tasks[1] > resp.body.tasks[2]
    /\ \E t \in DOMAIN tasks : tasks[t].project_id # resp.args.pid

\* C11: in every 200 response of tasks_by_project, total is the number of all
\* tasks of the project (whatever the size of the page), per_page is at least
\* 1 (no division by zero) and pages is ceil(total / per_page) for the
\* per_page after the cap at 100: pages is the least n with n * per_page >=
\* total, so total = 2, per_page = 1 gives 2 and total = 0 gives 0.
C11_TotalAndPages ==
    (IsList(resp) /\ resp.status = 200)
    => LET mine == {t \in DOMAIN tasks : tasks[t].project_id = resp.args.pid}
           asked == TextValue(resp.args.per_page, 10)
           per_page == IF asked > 100 THEN 100 ELSE asked
           total == resp.body.total
           pages == resp.body.pages
       IN  /\ total = Cardinality(mine)
           /\ per_page >= 1
           /\ pages >= 0
           /\ pages * per_page >= total
           /\ (pages - 1) * per_page < total
           /\ (total = 2 /\ per_page = 1) => pages = 2
           /\ total = 0 => pages = 0

\* total = 3 with per_page = 2: the second page holds one task of the
\* three and pages = 2; and an empty project answered with pages = 0 is
\* reached as well (C11_WitnessEmpty).
C11_Witness ==
    /\ IsList(resp) /\ resp.status = 200
    /\ resp.body.total = 3 /\ resp.body.per_page = 2 /\ resp.body.pages = 2
    /\ Len(resp.body.tasks) = 1

C11_WitnessEmpty ==
    /\ IsList(resp) /\ resp.status = 200
    /\ resp.body.total = 0 /\ resp.body.pages = 0

\* C12: tasks_by_project does not reject a per_page above 100: a request of a
\* member of the project with a valid page and an integer per_page > 100 is
\* answered 200; and every 200 response echoes per_page = min(asked, 100),
\* holds min(per_page, total - (page-1)*per_page) tasks (none when that is
\* negative) and has pages = ceil(total / per_page), both with that same
\* per_page; a per_page in 1..100 is therefore used and echoed as asked.
C12_PerPageClampedTo100 ==
    IsList(resp)
    => LET asked == TextValue(resp.args.per_page, 10)
           page == TextValue(resp.args.page, 1)
           per_page == IF asked > 100 THEN 100 ELSE asked
           total == Cardinality({t \in DOMAIN tasks :
                                    tasks[t].project_id = resp.args.pid})
           left == total - (page - 1) * per_page
       IN  /\ ( /\ IsIntegerText(resp.args.per_page) /\ asked > 100
                /\ (resp.args.page = None \/ IsIntegerText(resp.args.page))
                /\ page >= 1
                /\ \E u \in DOMAIN users :
                      /\ users[u].email = resp.args.email
                      /\ <<resp.args.pid, u>> \in members )
              => resp.status = 200
           /\ resp.status = 200
              => /\ resp.body.per_page = per_page
                 /\ (asked \in 1..100 => resp.body.per_page = asked)
                 /\ Len(resp.body.tasks) = IF left <= 0 THEN 0
                                           ELSE IF left < per_page THEN left
                                           ELSE per_page
                 /\ resp.body.pages * per_page >= total
                 /\ (resp.body.pages - 1) * per_page < total

\* per_page = 500 against a project of more than 100 tasks: page 2 is
\* answered with per_page 100, pages 2 and the tasks from the 101st on.
C12_Witness ==
    /\ IsList(resp) /\ resp.status = 200
    /\ resp.args.per_page = "500" /\ resp.args.page = "2"
    /\ resp.body.per_page = 100
    /\ resp.body.total > 100
    /\ resp.body.pages = 2
    /\ Len(resp.body.tasks) = resp.body.total - 100

\* C13: tasks_by_project writes nothing: over every step that is a
\* tasks_by_project request, whatever its arguments and its status (200,
\* 400, 403, 404 or 500), the users, projects, tasks and project_users rows
\* after the step are the rows before it.
C13_ListHasNoSideEffects ==
    [][IsList(resp')
       => /\ users' = users
          /\ projects' = projects
          /\ tasks' = tasks
          /\ members' = members]_vars

\* A non-member was refused (403) on a project that has tasks and members.
C13_Witness ==
    /\ IsList(resp) /\ resp.status = 403
    /\ \E t \in DOMAIN tasks : tasks[t].project_id = resp.args.pid
    /\ Rows(resp.args.pid) # {}
    /\ \E u \in DOMAIN users : users[u].email = resp.args.email

\* Two email texts that name the same address (the domain part compares
\* without regard to case).
SameAddress(a, b) == a = b \/ {a, b} = {Dave, DaveUpper}

\* C14: over every add_user_to_project step, (a) a response other than 200
\* (422, 404, 400 or 500) leaves every project_users row as it was; (b) an
\* email that is not a well-formed address is answered 422 "Validation
\* error" with a detail entry for the field email, whether the project exists
\* or not; (c) a well-formed email that no stored user has, on an existing
\* project, is answered 404.
C14_FailedAddChangesNothing ==
    [][IsAdd(resp')
       => /\ resp'.status # 200 => members' = members
          /\ resp'.args.email \notin WellFormedEmails
             => /\ resp'.status = 422
                /\ resp'.message = <<"Validation error", "email">>
          /\ ( /\ resp'.args.email \in WellFormedEmails
               /\ resp'.args.pid \in DOMAIN projects
               /\ \A u \in DOMAIN users : ~SameAddress(users[u].email, resp'.args.email) )
             => resp'.status = 404]_vars

\* An ill-formed email was refused with 422 on a project id that has no row,
\* while other projects have members.
C14_Witness ==
    /\ IsAdd(resp) /\ resp.status = 422
    /\ resp.args.pid \notin DOMAIN projects
    /\ members # {}

\* C15: over every add_user_to_project step answered 200, the user_count of
\* the returned project is the number of project_users rows of the project
\* after the step: the number before the step plus 1 when the user was added
\* ("User added to project", the user's row is new), and the number before
\* the step, with no row written, when the user was a member already.
C15_UserCountIsMemberSetSize ==
    [][(IsAdd(resp') /\ resp'.status = 200)
       => LET p == resp'.args.pid
              before == {m \in members : m[1] = p}
              after == {m \in members' : m[1] = p}
          IN  /\ resp'.body.user_count = Cardinality(after)
              /\ IF resp'.message = <<"User added to project">>
                 THEN /\ Cardinality(after) = Cardinality(before) + 1
                      /\ before \subseteq after
                      /\ \A m \in after \ before :
                            SameAddress(users[m[2]].email, resp'.args.email)
                 ELSE /\ resp'.message = <<"User already in project">>
                      /\ after = before
                      /\ \E m \in before :
                            SameAddress(users[m[2]].email, resp'.args.email)]_vars

\* A user was added to a project that had two members of the four stored
\* users: user_count = 3.
C15_Witness ==
    /\ IsAdd(resp) /\ resp.status = 200
    /\ resp.message = <<"User added to project">>
    /\ resp.body.user_count = 3
    /\ Cardinality(DOMAIN users) = 4
    /\ members \ Rows(resp.args.pid) # {}

\* A member was added again: user_count is the unchanged count.
C15_WitnessAlready ==
    /\ IsAdd(resp) /\ resp.status = 200
    /\ resp.message = <<"User already in project">>
    /\ resp.body.user_count = 2
    /\ Cardinality(DOMAIN users) > 2

IsDelete(r) == r.op = "user_by_id_delete"
IsPatch(r) == r.op = "user_by_id_patch"
IsCreate(r) == r.op = "users_post"

\* C16: over every step of the user handlers, (a) a DELETE of a stored user
\* whose body carries a password other than the user's stored one is answered
\* 401 "Incorrect password", with no commit, the user's row and every
\* project_users row left as they were; (b) a user's row disappears only in
\* a DELETE of that user, answered 200, whose password is the password stored
\* for the user before the step.
C16_DeleteNeedsStoredPassword ==
    [][/\ ( /\ IsDelete(resp')
            /\ resp'.args.uid \in DOMAIN users
            /\ resp'.args.password \notin {None, ""}
            /\ resp'.args.password # users[resp'.args.uid].password )
          => /\ resp'.status = 401
             /\ resp'.message = <<"Incorrect password">>
             /\ resp'.commits = 0
             /\ users' = users
             /\ members' = members
       /\ \A u \in DOMAIN users :
             u \notin DOMAIN users'
             => /\ IsDelete(resp') /\ resp'.status = 200
                /\ resp'.args.uid = u
                /\ resp'.args.password = users[u].password]_vars

\* A user whose password a PATCH had changed was asked to be deleted with the
\* former password: 401, and the user is still stored.
C16_Witness ==
    /\ IsDelete(resp) /\ resp.status = 401
    /\ resp.args.password = "password123"
    /\ resp.args.uid \in DOMAIN users
    /\ users[resp.args.uid].password = "changed"

\* A user was deleted with the password a PATCH had set.
C16_WitnessDeleted ==
    /\ IsDelete(resp) /\ resp.status = 200
    /\ resp.args.password = "changed"
    /\ resp.args.uid \notin DOMAIN users

\* C17: with user creates and PATCHes run by several workers and interleaved
\* at their commits, over every step: (a) after the step no two stored users
\* have the same email; (b) a create or PATCH that starts while a different
\* stored user has its (well-formed) email is answered 400 "Email already
\* exists" and writes nothing; (c) a PATCH that starts with the email its own
\* user has is not refused, and when that is still the user's email at its
\* commit it is answered 200.
C17_EmailsUnique ==
    [][/\ \A u \in DOMAIN users', v \in DOMAIN users' :
             u # v => users'[u].email # users'[v].email
       /\ \A w \in DOMAIN workers :
             LET r == workers'[w] IN
             /\ ( /\ workers[w].pc = "idle" /\ r.pc # "idle"
                  /\ r.op \in {"users_post", "user_by_id_patch"}
                  /\ r.email \in WellFormedEmails
                  /\ r.op = "user_by_id_patch" => r.user \in DOMAIN users
                  /\ \E u \in DOMAIN users \ {r.user} :
                        SameAddress(users[u].email, r.email) )
                => /\ r.pc = "done" /\ r.status = 400
                   /\ r.message = <<"Email already exists">>
                   /\ users' = users
             /\ ( /\ workers[w].pc = "idle" /\ r.pc # "idle"
                  /\ r.op = "user_by_id_patch"
                  /\ r.user \in DOMAIN users
                  /\ users[r.user].email = r.email )
                => r.pc = "commit_user"
             /\ ( /\ workers[w].pc = "commit_user" /\ r.pc = "done"
                  /\ r.op = "user_by_id_patch"
                  /\ users[r.user].email = r.email )
                => r.status = 200 /\ users'[r.user].email = r.email]_vars

\* Two creates of the same address were both past their duplicate test; one
\* was committed, the other failed at its commit, and one user has the email.
C17_Witness ==
    \E v \in DOMAIN workers, w \in DOMAIN workers :
        /\ v # w
        /\ workers[v].pc = "done" /\ workers[v].op = "users_post"
        /\ workers[v].status = 201
        /\ workers[w].pc = "done" /\ workers[w].op = "users_post"
        /\ workers[w].status = 500
        /\ SameAddress(workers[v].email, workers[w].email)
        /\ Cardinality({u \in DOMAIN users : users[u].email = Dave}) = 1

\* A create was refused with 400 for the email of a stored user, and a PATCH
\* of a user to its own email was answered 200.
C17_WitnessRefused ==
    \E v \in DOMAIN workers, w \in DOMAIN workers :
        /\ workers[v].pc = "done" /\ workers[v].op = "users_post"
        /\ workers[v].status = 400
        /\ workers[w].pc = "done" /\ workers[w].op = "user_by_id_patch"
        /\ workers[w].status = 200
        /\ users[workers[w].user].email = workers[w].email
        /\ workers[w].email = John

\* The address a well-formed email text is stored as: the text with its
\* domain part in lower case.
StoredForm(e) == IF e = DaveUpper THEN Dave ELSE e

\* The frame of a PATCH step, with `form` the value stored for a supplied
\* email: a 200 answer has changed, in the row of the user, exactly the
\* supplied fields (name and password to the supplied values, email to
\* form(supplied)), with one commit and every other row untouched; a body
\* with no field is answered 400 "No data provided"; and every answer other
\* than 200 leaves the users as they were, with no commit.
PatchFrame(form(_)) ==
    (IsPatch(resp') /\ resp'.args.uid \in DOMAIN users)
    => LET a == resp'.args
           old == users[a.uid]
       IN  /\ resp'.status = 200
              => /\ DOMAIN users' = DOMAIN users
                 /\ \A u \in DOMAIN users \ {a.uid} : users'[u] = users[u]
                 /\ users'[a.uid].name = IF a.name # None THEN a.name ELSE old.name
                 /\ users'[a.uid].email =
                        IF a.email # None THEN form(a.email) ELSE old.email
                 /\ users'[a.uid].password =
                        IF a.password # None THEN a.password ELSE old.password
                 /\ resp'.commits = 1
           /\ (a.name = None /\ a.email = None /\ a.password = None)
              => resp'.status = 400 /\ resp'.message = <<"No data provided">>
           /\ resp'.status # 200 => users' = users /\ resp'.commits = 0

\* C18: a PATCH on a user is a partial update: a 200 answer has changed
\* exactly the fields present in the body, name and password to the supplied
\* values and email to the supplied address as EmailStr returns it (domain
\* part in lower case), every omitted field and every other user keeping its
\* value, with exactly one commit; a body with no field is answered 400 "No
\* data provided" and changes nothing.
C18_PatchIsPartialUpdate == [][PatchFrame(StoredForm)]_vars

\* C18 as the claim words it: the email too is stored as the text supplied.
SuppliedText(e) == e
C18_PatchStoresSuppliedText == [][PatchFrame(SuppliedText)]_vars

\* A PATCH with a password alone was answered 200 on a user whose name an
\* earlier PATCH had set: the name is kept, the password is the new one.
C18_Witness ==
    /\ IsPatch(resp) /\ resp.status = 200 /\ resp.commits = 1
    /\ resp.args.name = None /\ resp.args.email = None
    /\ resp.args.password = "changed"
    /\ users[resp.args.uid].name = "Renamed"
    /\ users[resp.args.uid].password = "changed"

\* A PATCH with a name and the email of another user was refused: the name
\* is not changed either.
C18_WitnessRefused ==
    /\ IsPatch(resp) /\ resp.status = 400
    /\ resp.message = <<"Email already exists">>
    /\ resp.args.name = "Renamed"
    /\ users[resp.args.uid].name # "Renamed"

\* C19: in every reachable state every stored task has the id of a stored
\* project as its project_id, whatever sequence of sample-data creations,
\* CSV project and task imports, user deletions and project deletions (with
\* their cascade) led to it.
C19_TaskOwnership ==
    \A t \in DOMAIN tasks : tasks[t].project_id \in DOMAIN projects

\* A project was deleted with its tasks while another project keeps tasks of
\* its own.
C19_Witness ==
    /\ resp.op = "project_delete" /\ resp.status = 200
    /\ tasks # <<>>
    /\ \A t \in DOMAIN tasks : tasks[t].project_id # resp.args.pid

\* The tasks import found no project and stored nothing.
C19_WitnessNoProject ==
    /\ resp.op = "save_tasks" /\ resp.commits = 0
    /\ projects = <<>> /\ tasks = <<>>

\* C20: with add_user_to_project requests interleaved at their commits, a
\* membership row is never applied twice. Over every step, a worker's commit
\* of a row that another request has committed in the meantime writes
\* nothing and is answered 500 (error, after rollback), and a commit of a row
\* not yet stored stores it and is answered 200; and after the step no two
\* workers hold a "User added to project" answer for the same user and
\* project.
C20_SameAddNotAppliedTwice ==
    [][/\ \A w \in DOMAIN workers :
             (workers[w].pc = "commit" /\ workers'[w].pc = "done")
             => LET row == <<workers[w].pid, workers[w].user>> IN
                IF row \in members
                THEN /\ workers'[w].status = 500
                     /\ members' = members
                ELSE /\ workers'[w].status = 200
                     /\ workers'[w].message = <<"User added to project">>
                     /\ members' = members \cup {row}
       /\ \A v \in DOMAIN workers, w \in DOMAIN workers :
             ( /\ v # w
               /\ workers'[v].pc = "done" /\ workers'[w].pc = "done"
               /\ workers'[v].message = <<"User added to project">>
               /\ workers'[w].message = <<"User added to project">> )
             => <<workers'[v].pid, workers'[v].user>>
                  # <<workers'[w].pid, workers'[w].user>>]_vars

\* Two requests for the same user and project were both past the membership
\* and cap tests; one was answered 200, the other 500, and the project has
\* the one row.
C20_Witness ==
    \E v \in DOMAIN workers, w \in DOMAIN workers :
        /\ v # w
        /\ workers[v].pc = "done" /\ workers[w].pc = "done"
        /\ workers[v].pid = workers[w].pid /\ workers[v].user = workers[w].user
        /\ workers[v].status = 200
        /\ workers[v].message = <<"User added to project">>
        /\ workers[w].status = 500
        /\ <<workers[v].pid, workers[v].user>> \in members
        /\ Cardinality(Rows(workers[v].pid)) <= 3

C22_AddStampsUpdatedAt ==
    [][IsAdd(resp')
       => IF resp'.status = 200 /\ resp'.message = <<"User added to project">>
          THEN projects'[resp'.args.pid].updated_at
                 > projects[resp'.args.pid].updated_at
          ELSE projects' = projects]_vars

\* C23: for every stored project (0 to 3 members) and every stored user,
\* member or not, Project.add_user raises exactly when
\* ModelValidator.validate_project_user_count raises; and add_user with a
\* user who is a member does not raise and leaves the users of the project as
\* they are, also when the project has 3 members.
C23_AddUserAgreesWithValidator ==
    \A p \in DOMAIN projects, u \in DOMAIN users :
        LET loaded == ProjectUsers(p) IN
        /\ add_user(loaded, u).raised = validate_project_user_count(loaded, u).raised
        /\ u \in loaded
           => ~add_user(loaded, u).raised /\ add_user(loaded, u).users = loaded

\* C24: with user creates and PATCHes interleaved at their commits, over
\* every step: (a) a PATCH that starts while another stored user has its
\* email is answered 400 "Email already exists" and the stored users are
\* left as they were, whether or not the body carries a name; (b) the stored
\* name of a user changes only in the commit, answered 200, of a PATCH of
\* that user whose body carries exactly that name: the name of a refused
\* PATCH is written neither by that request nor by the commit of any other.
C24_RefusedPatchWritesNothing ==
    [][/\ \A w \in DOMAIN workers :
             LET r == workers'[w] IN
             ( /\ workers[w].pc = "idle" /\ r.pc # "idle"
               /\ r.op = "user_by_id_patch"
               /\ r.user \in DOMAIN users
               /\ r.email \in WellFormedEmails
               /\ \E u \in DOMAIN users \ {r.user} :
                     SameAddress(users[u].email, r.email) )
             => /\ r.pc = "done" /\ r.status = 400
                /\ r.message = <<"Email already exists">>
                /\ users' = users
       /\ \A u \in DOMAIN users \cap DOMAIN users' :
             users'[u].name # users[u].name
             => \E w \in DOMAIN workers :
                   /\ workers[w].pc = "commit_user" /\ workers'[w].pc = "done"
                   /\ workers'[w].op = "user_by_id_patch"
                   /\ workers'[w].status = 200
                   /\ workers[w].user = u
                   /\ workers[w].name = users'[u].name]_vars

\* A PATCH with a new name and another user's email was answered 400 and has
\* not returned yet; another request has committed a change of the same
\* user; the stored name is not the refused one.
C24_Witness ==
    \E v \in DOMAIN workers, w \in DOMAIN workers :
        /\ v # w
        /\ workers[w].pc = "done" /\ workers[w].op = "user_by_id_patch"
        /\ workers[w].status = 400
        /\ workers[w].message = <<"Email already exists">>
        /\ workers[w].name = "Renamed"
        /\ workers[v].pc = "done" /\ workers[v].op = "user_by_id_patch"
        /\ workers[v].status = 200
        /\ workers[v].user = workers[w].user
        /\ workers[v].name = None
        /\ users[workers[w].user].email = Dave
        /\ users[workers[w].user].name # "Renamed"

\* The first n sequences of ss, one after the other.
RECURSIVE Flatten(_, _)
Flatten(ss, n) == IF n = 0 THEN <<>> ELSE Flatten(ss, n - 1) \o ss[n]

\* C25: in every reachable state, for every project, every member of it and
\* every per_page of 1, 2, 3 and 100, the pages partition the task list: with
\* `pages` the page count answered for page 1, the pages 1..pages are all
\* answered 200, each with at least one task and each but the last with
\* exactly per_page tasks; their task lists one after the other hold every
\* task of the project exactly once, in (order, id) ascending order; and page
\* pages + 1 is answered 200 with no task and the same total.
C25_PagesPartitionTasks ==
    \A p \in DOMAIN projects : \A u \in ProjectUsers(p), pp \in {1, 2, 3, 100} :
        LET email == users[u].email
            first == tasks_by_project_result(p, email, "1", ToString(pp))
            pages == first.body.pages
            list == [k \in 1..(pages + 1) |->
                       tasks_by_project_result(p, email, ToString(k), ToString(pp))]
            mine == {t \in DOMAIN tasks : tasks[t].project_id = p}
            all == Flatten([k \in 1..pages |-> list[k].body.tasks], pages)
        IN  /\ first.status = 200
            /\ \A k \in 1..(pages + 1) : list[k].status = 200
            /\ \A k \in 1..pages :
                  /\ Len(list[k].body.tasks) >= 1
                  /\ k < pages => Len(list[k].body.tasks) = pp
            /\ Len(all) = Cardinality(mine)
            /\ Range(all) = mine
            /\ \A i \in 1..Len(all), j \in 1..Len(all) :
                  i < j => KeyLess(all[i], all[j])
            /\ list[pages + 1].body.tasks = <<>>
            /\ list[pages + 1].body.total = first.body.total
            /\ first.body.total = Cardinality(mine)

\* The third page of a project of three tasks with per_page = 1 was
\* answered: one task, the last of the project in (order, id) order.
C25_Witness ==
    /\ IsList(resp) /\ resp.status = 200
    /\ resp.args.page = "3" /\ resp.args.per_page = "1"
    /\ resp.body.total = 3 /\ resp.body.pages = 3
    /\ Len(resp.body.tasks) = 1
    /\ \A t \in DOMAIN tasks :
          (tasks[t].project_id = resp.args.pid /\ t # resp.body.tasks[1])
          => KeyLess(t, resp.body.tasks[1])

\* A page beyond the last was answered 200 with no task.
C25_WitnessBeyond ==
    /\ IsList(resp) /\ resp.status = 200
    /\ resp.args.page = "3" /\ resp.args.per_page = "2"
    /\ resp.body.total = 4 /\ resp.body.pages = 2
    /\ resp.body.tasks = <<>>

\* C26: over every step, (a) after the step every project_users row has the
\* id of a stored project and the id of a stored user; (b) after a DELETE of
\* a user answered 200, no row names that user, every project has one row
\* fewer if the user was a member of it and the same rows otherwise, a
\* project that was full with the user as a member lets add_user_to_project
\* go on to its commit for every stored user who is not a member, and
\* tasks_by_project with the email the user had is answered 404, whatever the
\* project.
C26_MembershipIntegrity ==
    [][/\ \A m \in members' : m[1] \in DOMAIN projects' /\ m[2] \in DOMAIN users'
       /\ (IsDelete(resp') /\ resp'.status = 200)
          => LET u == resp'.args.uid
                 e == users[u].email
             IN  /\ \A m \in members' : m[2] # u
                 /\ \A p \in DOMAIN projects :
                       LET before == {m \in members : m[1] = p}
                           after == {m \in members' : m[1] = p}
                       IN  /\ after = before \ {<<p, u>>}
                           /\ (<<p, u>> \in before /\ Cardinality(before) = 3)
                              => /\ Cardinality(after) = 2
                                 /\ \A v \in DOMAIN users' :
                                       <<p, v>> \notin after
                                       => (add_user_to_project_begin(p, users[v].email).status = 0)'
                 /\ \A p \in ProjectIds, em \in WellFormedEmails :
                       em = e
                       => (tasks_by_project_result(p, em, None, None).status = 404)']_vars

\* John, a member of the full sample project, was deleted while a fourth
\* user is stored: the project is left with the two other members.
C26_Witness ==
    /\ IsDelete(resp) /\ resp.status = 200 /\ resp.args.uid = 1
    /\ resp.args.password = "password123"
    /\ \E p \in DOMAIN projects : Rows(p) = {<<p, 2>>, <<p, 3>>}
    /\ MaxUserId \in DOMAIN users

\* After the deletion the fourth user was added to the project that had been
\* full.
C26_WitnessAddedAfter ==
    /\ IsAdd(resp) /\ resp.status = 200
    /\ resp.message = <<"User added to project">>
    /\ 1 \notin DOMAIN users
    /\ Rows(resp.args.pid) = {<<resp.args.pid, u>> : u \in {2, 3, MaxUserId}}

====
